---- MODULE Spec2Model ----
(***************************************************************************)
(* SpellClickMaster: the SpellDetector control operations (start, pause,   *)
(* resume, stop, update_config) and its detection worker thread            *)
(* (_detection_loop), modelled from src/SpellClickMaster/spell_detector.py *)
(* together with the configuration it loads (utils/config_manager.py) and  *)
(* the screen capture it calls (screen_capture.py).                        *)
(*                                                                         *)
(* A time.sleep ends at some later moment: how long it lasts bears on none *)
(* of the properties, so a sleeping thread keeps only which sleep it is in.*)
(* The timeout of the join in stop() is counted, in seconds.               *)
(***************************************************************************)
EXTENDS Integers, Sequences, FiniteSets, TLC

\* ---------------------------------------------------------------- bounds
\* find_all_matches: the largest x and y of a candidate location and the
\* largest number of candidate locations of one call
GridW == 3
GridH == 0
MaxCandidates == 3
\* press_key, press_key_combination: the largest number of keys of a chord
MaxChord == 3
\* find_best_match: the pushes to the stability window that are counted
MaxPushes == 4
\* SpellKeybinder: the largest number of spells in its lists
MaxSpells == 4
\* threads that self.detection_thread no longer refers to and that may still
\* be executing at one time
MaxOrphans == 1
\* cap of the count of consecutive skipped ticks of the detection thread
MaxSkips == 5

\* ---------------------------------------------------- program constants
\* detection_thread.join(timeout=1.0), in seconds
JoinTimeout == 1
\* default confidence_threshold 0.8, in hundredths
DefaultThreshold == 80
\* default cooldown 0.5 s, in tenths of a second
DefaultCooldown == 5
\* find_best_match(..., threshold=0.7), in hundredths
DefaultMatchThreshold == 70

\* ------------------------------------------------------------ data model
\* scan_area: None or a region (x, y, w, h)
NoArea == 0
Area == 1

\* the names of the preset templates and their default keys
PresetNames == <<"N5", "C1", "N1">>
Names == {"N5", "C1", "N1"}
PresetKeybinds == [n \in Names |-> CASE n = "N5" -> "1" [] n = "C1" -> "2" [] OTHER -> "3"]
NoKeybinds == [n \in {} |-> ""]

\* a dict assignment d[k] = v for every k of e, as _add_preset_templates does
DictUpdate(d, e) == [k \in (DOMAIN d) \cup (DOMAIN e) |-> IF k \in DOMAIN e THEN e[k] ELSE d[k]]

Config(a, k, t) ==
  [scan_area |-> a, confidence_threshold |-> DefaultThreshold,
   cooldown |-> DefaultCooldown, keybinds |-> k, icon_templates |-> t]

\* no update_config() is in progress
NoConfig == Config(NoArea, NoKeybinds, << >>)

\* the configurations load_config() may return: the defaults of a missing
\* file, templates captured but no key bound, keys bound but no region
\* selected, and a complete configuration
Configs ==
  { Config(NoArea, NoKeybinds, << >>),
    Config(Area, NoKeybinds, <<"C1", "N5">>),
    Config(NoArea, PresetKeybinds, PresetNames),
    Config(Area, PresetKeybinds, PresetNames) }

\* captured frames, each given by the confidence (in hundredths) with which
\* every template matches it; 0 stands for None (no screenshot)
NoShot == 0
Frames ==
  << [n \in Names |-> IF n = "N5" THEN 80 ELSE 70],
     [n \in Names |-> IF n = "N5" THEN 95 ELSE 70],
     [n \in Names |-> CASE n = "N5" -> 90 [] n = "C1" -> 85 [] OTHER -> 70],
     [n \in Names |-> CASE n = "N5" -> 85 [] n = "C1" -> 90 [] OTHER -> 70] >>
FrameIds == 1..Len(Frames)

\* the attributes a SpellDetector instance has: the ones __init__ assigns,
\* the signals and the methods the class defines
InstanceAttrs ==
  {"config_manager", "screen_capture", "keyboard", "icon_matcher",
   "running", "paused", "detection_thread", "last_detected_icon",
   "last_action_time", "scan_area", "detection_frequency",
   "confidence_threshold", "cooldown", "keybinds", "icon_templates",
   "fps", "frame_times", "max_frame_times",
   "_add_preset_templates", "start", "pause", "resume", "stop",
   "update_config", "is_running", "is_paused", "_detection_loop",
   "get_performance_stats", "status_updated", "icon_detected",
   "screenshot_updated"}
HasAttr(a) == a \in InstanceAttrs

VARIABLES
  running, paused,
  scan_area, confidence_threshold, cooldown, keybinds, icon_templates,
  worker,      \* the thread self.detection_thread refers to
  orphans,     \* live threads started earlier, no longer referred to
  ctl,         \* where the controller is: "idle", "joining" (inside stop)
               \* or "updating" (inside update_config)
  loaded,      \* the local config of the update_config() in progress
  joinRem,     \* time left of the join in progress
  skips,       \* consecutive ticks the detection thread has skipped
  pressed,     \* key presses dispatched by press_key
  detections,  \* icon_detected emissions
  event,       \* what the last step let an observer see
  \* IconMatcher (utils/icon_matcher.py)
  recent_matches, \* self.recent_matches
  raws,        \* the names find_best_match has pushed, the latest
               \* max_recent_matches of them
  pushes,      \* how many names find_best_match has pushed, up to MaxPushes
  found,       \* what the last find_best_match call returned
  \* the configuration editors (ui/configuration_dialog.py, ui/setup_wizard.py)
  templates,   \* ConfigManager.icon_templates, the dict every editor edits in place
  binds,       \* self.config['keybinds'] of the open ConfigurationDialog
  mode,        \* which window is open: "main", "dialog" or "wizard"
  cleared,     \* IconTemplatePage.icon_templates is a new, empty dict
  done,        \* the handler that ran last and what it did
  \* AdvancedIconMatcher (utils/advanced_icon_matcher.py)
  adv_call,    \* the arguments of the last call
  adv_ret,     \* what the call returned, or that it raised
  \* KeyboardController (keyboard_controller.py)
  kb_call,     \* the call and what its environment does during it
  kb_ret,      \* the key events the call emitted and what it returned
  \* ConfigManager (utils/config_manager.py)
  templates_file, \* icon_templates.dat: whether it exists and the dict pickled in it
  mgr_templates,  \* self.icon_templates of the ConfigManager in use
  saved,       \* the icon_templates of the last save_config, if any
  store_ev,    \* the call of the ConfigManager that returned last
  \* the standalone SpellKeybinder and its KeybinderUI (wow_spell_clicker_ui.py)
  spell_templates, spell_keys, spell_names, \* the three lists of the SpellKeybinder
  spell_tree,  \* the item ids of the KeybinderUI's spell_tree
  sk_ev        \* the handler of the KeybinderUI that ran last

detVars == <<running, paused, scan_area, confidence_threshold, cooldown, keybinds,
             icon_templates, worker, orphans, ctl, loaded, joinRem, skips, pressed,
             detections, event>>
matcherVars == <<recent_matches, raws, pushes, found>>

\* the variables of the components a SpellDetector step leaves alone
editVars == <<templates, binds, mode, cleared, done>>
advVars == <<adv_call, adv_ret>>
kbVars == <<kb_call, kb_ret>>
storeVars == <<templates_file, mgr_templates, saved, store_ev>>
skVars == <<spell_templates, spell_keys, spell_names, spell_tree, sk_ev>>
extVars == <<kbVars, storeVars, skVars>>
libVars == <<matcherVars, editVars, advVars, extVars>>

vars == <<detVars, matcherVars, editVars, advVars, extVars>>

flagVars == <<running, paused>>
cfgVars == <<scan_area, confidence_threshold, cooldown, keybinds, icon_templates>>
outVars == <<pressed, detections>>

\* a thread: its position in _detection_loop ("sleep_paused" is the
\* time.sleep(0.1) of a paused tick, "sleep_backoff" the time.sleep(1) of a
\* skipped one) and its locals scan_area and screenshot
NoThread == [pc |-> "none", area |-> NoArea, shot |-> NoShot]
NewThread == [NoThread EXCEPT !.pc = "while"]
Alive(th) == th.pc \notin {"none", "exited", "crashed"}

\* an event: the control call that returned and its result, or the tick a
\* thread (0: the detection thread, i: orphan i) has finished
NoEvent ==
  [op |-> "none", ret |-> "none", who |-> 0, area |-> NoArea, shot |-> NoShot, keys |-> << >>]
Returned(name, r) == [NoEvent EXCEPT !.op = name, !.ret = r]

\* is_running() and is_paused()
is_running == running /\ ~paused
is_paused == running /\ paused
RunState == IF ~running THEN "Stopped" ELSE IF paused THEN "Paused" ELSE "Running"

\* ----------------------------------------------------------- IconMatcher
\* self.max_recent_matches and self.stability_threshold
max_recent_matches == 3
stability_threshold == 2

\* best_match_name = None
NoName == ""

\* what the loop of find_best_match gets for one template: the template is
\* skipped (it is None, does not convert, or is larger than the image), a
\* cv2 call raises, or matchTemplate gives a confidence, in hundredths
Unusable == -1
Raises == -2
Levels == {Raises, Unusable, 0, 60, 90}
Scorings == [Names -> Levels]

\* the templates argument, a dict in its insertion order
TemplateOrders == {PresetNames, <<"N1", "C1", "N5">>, << >>}

\* the loop over templates.items(): "if confidence > best_confidence",
\* from best_match_name = None and best_confidence = 0
RECURSIVE BestFrom(_, _, _, _)
BestFrom(order, s, i, best) ==
  IF i > Len(order) THEN best
  ELSE BestFrom(order, s, i + 1,
                IF s[order[i]] > best.confidence
                  THEN [name |-> order[i], confidence |-> s[order[i]]]
                  ELSE best)

BestMatch(order, s) == BestFrom(order, s, 1, [name |-> NoName, confidence |-> 0])

\* a cv2 call of the loop raises: the except clause returns (None, 0)
LoopRaises(order, s) == \E i \in DOMAIN order : s[order[i]] = Raises

\* the eviction removes the entry just appended: recent_matches.pop()
PushDropNewest(w, n) ==
  IF Len(w) + 1 > max_recent_matches THEN w ELSE Append(w, n)

\* nothing is evicted
EvictNone(w) == w

\* "if len(recent_matches) > max_recent_matches: recent_matches.pop(0)"
Evict(w) == IF Len(w) > max_recent_matches THEN Tail(w) ELSE w

\* "recent_matches.append(best_match_name)", then the eviction
Push(w, n) == Evict(Append(w, n))

\* how often n occurs in w, and where it occurs first and last
Count(w, n) == Cardinality({i \in DOMAIN w : w[i] = n})
FirstAt(w, n) == CHOOSE i \in DOMAIN w : w[i] = n /\ \A j \in DOMAIN w : w[j] = n => i <= j
LastAt(w, n) == CHOOSE i \in DOMAIN w : w[i] = n /\ \A j \in DOMAIN w : w[j] = n => j <= i

\* among the names that occur most often, the one seen last
MostCommonLatest(w) ==
  w[CHOOSE i \in DOMAIN w :
      /\ \A j \in DOMAIN w : Count(w, w[j]) <= Count(w, w[i])
      /\ \A j \in DOMAIN w : Count(w, w[j]) = Count(w, w[i]) => j <= i]

\* Counter(recent_matches).most_common(1)[0][0]: a Counter keeps its keys
\* in the order of their first occurrence and most_common(1) is the max of
\* its items by count, the first one among equal counts
MostCommon(w) ==
  w[CHOOSE i \in DOMAIN w :
      /\ \A j \in DOMAIN w : Count(w, w[j]) <= Count(w, w[i])
      /\ \A j \in DOMAIN w : Count(w, w[j]) = Count(w, w[i]) => i <= j]

\* "all(match == last_matches[0] for match in last_matches)" of
\* last_matches = recent_matches[-stability_threshold:]
LastAllSame(w) ==
  \A i \in (Len(w) - stability_threshold + 1)..Len(w) :
    w[i] = w[Len(w) - stability_threshold + 1]

\* the name find_best_match returns once best_match_name is in the window
StableName(w, best) ==
  IF Len(w) >= stability_threshold
    THEN IF LastAllSame(w) THEN best ELSE MostCommon(w)
    ELSE best

\* the latest n entries of a sequence
LastN(w, n) == IF Len(w) > n THEN SubSeq(w, Len(w) - n + 1, Len(w)) ELSE w

\* a return value of find_best_match, with the raw best_match_name
\* and with own, what the loop of the call computed for the name returned
NoFound == [op |-> "none", raw |-> NoName, name |-> NoName, confidence |-> 0, own |-> 0]

\* --------------------------------------------------------------- editors
\* the names of spells: the presets and one more
SpellNames == Names \cup {"X"}
\* the names a user types: into the name field, for add_spell, in the wizard
TypedNames == {"N5", "X"}
\* template images: the preset squares and what a capture or add_spell makes
PresetImages == [n \in Names |-> n]
NewImage == "new"
\* the keys a user types
TypedKeys == {"q"}

\* a dict with the entry of name k set, and with it deleted
DictSet(d, k, v) == [n \in DOMAIN d \cup {k} |-> IF n = k THEN v ELSE d[n]]
DictDel(d, k) == [n \in DOMAIN d \ {k} |-> d[n]]

\* the keybinds of config.json: _add_preset_templates has saved them on
\* the first run, and save_configuration (a configuration without
\* 'expansions') writes no keybinds back
FileKeybinds == PresetKeybinds

\* no handler has run
NoDone == [op |-> "none", old |-> "", new |-> "", ret |-> "none"]
Did(op, old, new, ret) == [op |-> op, old |-> old, new |-> new, ret |-> ret]

\* the main window is open on the configuration of the first run
EditorsNew ==
  /\ templates = PresetImages
  /\ binds = FileKeybinds
  /\ mode = "main"
  /\ cleared = FALSE
  /\ done = NoDone

\* --------------------------------------------------- AdvancedIconMatcher
\* what a matching method gives for one template: a MatchResult with a
\* confidence (in hundredths), no result (None is returned, or the method
\* is not run), or an exception
NoResult == -1
MethodRaises == -2
Outcomes == {MethodRaises, NoResult, 70, 80, 90}
MethodLists == {<<"template">>, <<"template", "sift">>}
\* the outcomes of the pairs of a call with the methods given
Scores(methods) == [Names \X {methods[i] : i \in DOMAIN methods} -> Outcomes]

\* the (template, method) pairs in the order of the two nested loops
Pairs(order, methods) ==
  [k \in 1..(Len(order) * Len(methods)) |->
     <<order[((k - 1) \div Len(methods)) + 1], methods[((k - 1) % Len(methods)) + 1]>>]

\* what find_best_match returns
NoMatch == [kind |-> "none", name |-> NoName, method |-> "", confidence |-> 0, out |-> << >>]
Raised == [NoMatch EXCEPT !.kind = "raised"]
Match(pair, c) == [NoMatch EXCEPT !.kind = "match", !.name = pair[1], !.method = pair[2], !.confidence = c]

\* the loops of find_best_match from pair i on, with best_match and
\* best_confidence: an exception of a method leaves the loops and the call
RECURSIVE AdvBestFrom(_, _, _, _, _)
AdvBestFrom(pairs, sc, i, best_match, best_confidence) ==
  IF i > Len(pairs) THEN best_match
  ELSE LET r == sc[pairs[i]] IN
    IF r = MethodRaises THEN Raised
    ELSE IF r # NoResult /\ r > best_confidence
      THEN AdvBestFrom(pairs, sc, i + 1, Match(pairs[i], r), r)
      ELSE AdvBestFrom(pairs, sc, i + 1, best_match, best_confidence)

\* best_match = None, best_confidence = threshold
AdvBest(pairs, sc, threshold) == AdvBestFrom(pairs, sc, 1, NoMatch, threshold)

\* find_all_matches: the template sizes (width, height) and the candidate
\* locations (x, y, confidence), one per location of the result matrix
TemplateSizes == {<<4, 2>>, <<3, 3>>, <<1, 1>>}
Locations == (0..GridW) \X (0..GridH)
Candidate(l, c) == <<l[1], l[2], c>>
CandidateSets(locs) ==
  UNION {[L -> {70, 90}] : L \in {K \in SUBSET locs : Cardinality(K) <= MaxCandidates}}

\* "matches.sort(key=lambda x: x[2], reverse=True)" of the matches in the
\* order of np.where (by row, then by column): a stable sort
Before(a, b) ==
  \/ a[3] > b[3]
  \/ a[3] = b[3] /\ (a[2] < b[2] \/ (a[2] = b[2] /\ a[1] <= b[1]))
RECURSIVE Sorted(_)
Sorted(S) ==
  IF S = {} THEN << >>
  ELSE LET a == CHOOSE x \in S : \A y \in S : Before(x, y)
       IN <<a>> \o Sorted(S \ {a})

\* overlap_x * overlap_y of two boxes of the size of the template
Max(a, b) == IF a > b THEN a ELSE b
Min(a, b) == IF a < b THEN a ELSE b
OverlapArea(m, e, w, h) ==
  Max(0, Min(m[1] + w, e[1] + w) - Max(m[1], e[1])) *
  Max(0, Min(m[2] + h, e[2] + h) - Max(m[2], e[2]))

\* the match is compared with the match accepted last only
IsOverlappingLast(m, final, w, h) ==
  final # << >> /\ 2 * OverlapArea(m, final[Len(final)], w, h) > w * h

\* "if overlap_area > 0.5 * template_area" for some accepted match
IsOverlapping(m, final, w, h) ==
  \E k \in DOMAIN final : 2 * OverlapArea(m, final[k], w, h) > w * h

\* the suppression loop from match i on
RECURSIVE Nms(_, _, _, _, _, _)
Nms(matches, i, final, w, h, max_results) ==
  IF i > Len(matches) \/ Len(final) >= max_results THEN final
  ELSE IF IsOverlapping(matches[i], final, w, h)
    THEN Nms(matches, i + 1, final, w, h, max_results)
    ELSE Nms(matches, i + 1, Append(final, matches[i]), w, h, max_results)

\* no call; image tells whether the call has an image (and templates)
NoCall == [op |-> "none", image |-> FALSE, methods |-> << >>, sc |-> << >>, threshold |-> 0,
           cands |-> {}, w |-> 0, h |-> 0, max_results |-> 0]
\* a call that has not returned
Pending == [NoMatch EXCEPT !.kind = "pending"]

\* the calls of find_best_match and of find_all_matches
BestMatchCalls(lists) ==
  {[NoCall EXCEPT !.op = "find_best_match", !.threshold = DefaultMatchThreshold]} \cup
  UNION {{[NoCall EXCEPT !.op = "find_best_match", !.image = TRUE, !.methods = methods,
                         !.sc = sc, !.threshold = DefaultMatchThreshold] :
            sc \in Scores(methods)} : methods \in lists}
AllMatchesCalls(sizes) ==
  {[NoCall EXCEPT !.op = "find_all_matches"]} \cup
  {[NoCall EXCEPT !.op = "find_all_matches", !.image = TRUE,
                  !.cands = {Candidate(l, cx[1][l]) : l \in DOMAIN cx[1]},
                  !.w = cx[2][1], !.h = cx[2][2], !.max_results = cx[3]] :
     cx \in CandidateSets(Locations) \X sizes \X (0..MaxCandidates)}

AdvNew ==
  /\ adv_call = NoCall
  /\ adv_ret = NoMatch

\* ---------------------------------------------------- KeyboardController
\* the names of the keys of a chord; "+" is the plus key
KeyNames == {"ctrl", "SHIFT", "1", "+"}
\* str.lower
Lower(k) == IF k = "SHIFT" THEN "shift" ELSE k
\* the chords of 1..MaxChord keys
Chords == UNION {[1..n -> KeyNames] : n \in 1..MaxChord}

\* a string naming a chord, as the sequence of its key names and "+" signs
Join(keys) == [i \in 1..(2 * Len(keys) - 1) |-> IF i % 2 = 1 THEN keys[(i + 1) \div 2] ELSE "+"]
\* str.split('+') of such a string: the text between the "+" signs, ""
\* where there is none
RECURSIVE SplitFrom(_, _, _, _)
SplitFrom(str, i, cur, acc) ==
  IF i > Len(str) THEN Append(acc, cur)
  ELSE IF str[i] = "+" THEN SplitFrom(str, i + 1, "", Append(acc, cur))
       ELSE SplitFrom(str, i + 1, str[i], acc)
Split(str) == SplitFrom(str, 1, "", << >>)
\* '+' in key
HasPlus(str) == \E i \in DOMAIN str : str[i] = "+"

\* a key event handed to the operating system
KeyDown(k) == <<"down", k>>
KeyUp(k) == <<"up", k>>
\* pyautogui.press(k)
Tap(k) == <<KeyDown(k), KeyUp(k)>>
Reversed(s) == [i \in 1..Len(s) |-> s[Len(s) + 1 - i]]
Front(s) == SubSeq(s, 1, Len(s) - 1)
Last(s) == s[Len(s)]
Downs(ks) == [i \in 1..Len(ks) |-> KeyDown(ks[i])]
Ups(ks) == [i \in 1..Len(ks) |-> KeyUp(ks[i])]

\* the events a sequence of input calls emits when its call number fail
\* raises (0: none does): the calls before it
Emitted(plan, fail) == IF fail = 0 \/ fail > Len(plan) THEN plan ELSE SubSeq(plan, 1, fail - 1)
Fails(plan, fail) == fail > 0 /\ fail <= Len(plan)

\* press_key, lines 54-66: the messages sent to the WoW window
DirectPlan == <<KeyDown("alt"), KeyDown("3"), KeyUp("3"), KeyUp("alt")>>
\* press_key, lines 79-95: modifiers down, the last key down and up, the
\* modifiers up in reverse order
FallbackPlan(parts) ==
  Downs(Front(parts)) \o Tap(Last(parts)) \o Ups(Reversed(Front(parts)))
\* press_key_combination, lines 160-176
CombinationPlan(keys) ==
  IF Len(keys) > 1 THEN Downs(Front(keys)) \o Tap(Last(keys)) \o Ups(Reversed(Front(keys)))
  ELSE Tap(keys[1])
\* press_key_combination, lines 184-188: keyUp of every key of the list,
\* given up silently at the first keyUp that raises
ReleaseOnFailure(keys, fail) == Emitted(Ups(keys), fail)
\* ensure_game_focus, lines 236-238: alt+tab away from the own window
FocusPlan == <<KeyDown("alt")>> \o Tap("tab") \o <<KeyUp("alt")>>

KbResult(events, ok) == [events |-> events, ok |-> ok, returned |-> TRUE]
KbPending == [events |-> << >>, ok |-> FALSE, returned |-> FALSE]

\* press_key(key) when the WoW window is found (hwnd), the message number
\* direct_fail raises and the pyautogui call number fail raises
PressKeyResult(key, hwnd, direct_fail, fail) ==
  IF HasPlus(key)
  THEN LET parts == [i \in DOMAIN Split(key) |-> Lower(Split(key)[i])]
           direct == IF hwnd THEN Emitted(DirectPlan, direct_fail) ELSE << >>
       IN IF hwnd /\ ~Fails(DirectPlan, direct_fail)
          THEN KbResult(direct, TRUE)
          ELSE KbResult(direct \o Emitted(FallbackPlan(parts), fail),
                        ~Fails(FallbackPlan(parts), fail))
  ELSE KbResult(Emitted(Tap(key[1]), fail), ~Fails(Tap(key[1]), fail))

\* press_key_combination(keys) when ensure_game_focus switches windows
\* (focus), the pyautogui call number fail raises and, in the cleanup, the
\* keyUp number clean_fail
PressKeyCombinationResult(keys, focus, fail, clean_fail) ==
  IF Len(keys) = 0 THEN KbResult(<< >>, FALSE)
  ELSE LET before == IF focus THEN FocusPlan ELSE << >>
       IN IF Fails(CombinationPlan(keys), fail)
          THEN KbResult(before \o Emitted(CombinationPlan(keys), fail)
                               \o ReleaseOnFailure(keys, clean_fail), FALSE)
          ELSE KbResult(before \o CombinationPlan(keys), TRUE)

\* chord is the chord the caller asks for: keys itself, or what key names
NoKbCall == [op |-> "none", chord |-> << >>, key |-> << >>, keys |-> << >>, hwnd |-> FALSE, focus |-> FALSE,
             direct_fail |-> 0, fail |-> 0, clean_fail |-> 0]
PressKeyCalls(chords) ==
  {[NoKbCall EXCEPT !.op = "press_key", !.chord = c, !.key = Join(c), !.hwnd = x[1], !.direct_fail = x[2],
                    !.fail = f] :
     c \in chords, f \in 0..(2 * MaxChord),
     x \in {<<FALSE, 0>>} \cup ({TRUE} \X (0..Len(DirectPlan)))}
PressKeyCombinationCalls(chords) ==
  {[NoKbCall EXCEPT !.op = "press_key_combination", !.chord = c, !.keys = c, !.focus = fo, !.fail = f,
                    !.clean_fail = cf] :
     c \in chords \cup {<< >>}, fo \in BOOLEAN, f \in 0..(2 * MaxChord), cf \in 0..MaxChord}

KbNew ==
  /\ kb_call = NoKbCall
  /\ kb_ret = KbPending
\* ---------------------------------------------------------- ConfigManager
\* the dicts of template images: a name has its preset image or a new one
EmptyDict == [n \in {} |-> ""]
TemplateDicts ==
  UNION {{d \in [S -> Names \cup {NewImage}] : \A n \in S : d[n] \in {PresetImages[n], NewImage}} :
           S \in SUBSET Names}
\* icon_templates.dat
NoFile == [exists |-> FALSE, data |-> EmptyDict]
File(d) == [exists |-> TRUE, data |-> d]
\* _save_templates: "if self.icon_templates:" pickle.dump to the file
SaveTemplates(d, file) == IF DOMAIN d # {} THEN File(d) ELSE file
\* _load_templates: "if os.path.exists(self.templates_file):" pickle.load
LoadTemplates(file) == IF file.exists THEN file.data ELSE EmptyDict

NoSave == [any |-> FALSE, t |-> EmptyDict]
NoStoreEv == [op |-> "none", t |-> EmptyDict]

\* no template has been saved and a ConfigManager has been constructed
StoreNew ==
  /\ templates_file = NoFile
  /\ mgr_templates = LoadTemplates(NoFile)
  /\ saved = NoSave
  /\ store_ev = NoStoreEv

\* --------------------------------------------------------- SpellKeybinder
\* the spells a user adds, by the name typed
TypedSpells == {"Hex", "Bloodlust"}
\* the key typed for a spell, and the template captured of it (take 1 by
\* add_spell, take 2 by update_selected_spell)
KeyOf(spell) == <<"key", spell>>
ImageOf(spell, take) == <<"image", spell, take>>
\* import_keybinds: the list "keybinds" of (name, key) pairs, its first two
ImportedKeybinds == <<<<"Bloodlust", KeyOf("Bloodlust")>>, <<"Earth Shield", KeyOf("Earth Shield")>>>>
\* list.pop(idx)
Pop(l, idx) == [j \in 1..(Len(l) - 1) |-> IF j <= idx THEN l[j] ELSE l[j + 1]]
\* update_spell_list: one item per pair of zip(spell_keys, spell_names),
\* the index as its id
TreeOf(keys, names) == 0..(Min(Len(keys), Len(names)) - 1)

\* SpellKeybinder.__init__ and an empty spell_tree
KeybinderNew ==
  /\ spell_templates = << >>
  /\ spell_keys = << >>
  /\ spell_names = << >>
  /\ spell_tree = {}
  /\ sk_ev = "none"

ExtNew == KbNew /\ StoreNew /\ KeybinderNew

\* ------------------------------------------------------------------ Init
\* __init__: load the configuration, then _add_preset_templates
Constructed(c) ==
    /\ running = FALSE
    /\ paused = FALSE
    /\ scan_area = c.scan_area
    /\ confidence_threshold = c.confidence_threshold
    /\ cooldown = c.cooldown
    /\ IF c.icon_templates = << >>
         THEN /\ icon_templates = PresetNames
              /\ keybinds = DictUpdate(c.keybinds, PresetKeybinds)
         ELSE /\ icon_templates = c.icon_templates
              /\ keybinds = c.keybinds
    /\ worker = NoThread
    /\ orphans = << >>
    /\ ctl = "idle"
    /\ loaded = NoConfig
    /\ joinRem = 0
    /\ skips = 0
    /\ pressed = << >>
    /\ detections = << >>
    /\ event = NoEvent

\* IconMatcher.__init__
MatcherNew ==
  /\ recent_matches = << >>
  /\ raws = << >>
  /\ pushes = 0
  /\ found = NoFound

Init ==
  /\ \E c \in Configs : Constructed(c)
  /\ MatcherNew
  /\ EditorsNew
  /\ AdvNew
  /\ ExtNew

\* ------------------------------------------------------ control operations
\* the configuration checks of start(): "if not self.scan_area",
\* "if not self.keybinds"
\* start() without the keybinds check
StartConfiguredRegionOnly == scan_area # NoArea

StartConfigured == scan_area # NoArea /\ DOMAIN keybinds # {}

Start ==
  /\ ctl = "idle"
  /\ IF running \/ ~StartConfigured
       THEN /\ event' = Returned("start", "false")
            /\ UNCHANGED <<flagVars, worker, orphans, skips>>
       ELSE /\ running' = TRUE
            /\ paused' = FALSE
            /\ worker' = NewThread
            /\ IF Alive(worker)
                 THEN Len(orphans) < MaxOrphans /\ orphans' = Append(orphans, worker)
                 ELSE UNCHANGED orphans
            /\ skips' = 0
            /\ event' = Returned("start", "true")
  /\ UNCHANGED <<cfgVars, ctl, loaded, joinRem, outVars, libVars>>

\* pause() without the test of running
PauseGuardAnyState == ~paused

PauseGuard == running /\ ~paused

Pause ==
  /\ ctl = "idle"
  /\ IF PauseGuard
       THEN paused' = TRUE /\ event' = Returned("pause", "true")
       ELSE UNCHANGED paused /\ event' = Returned("pause", "false")
  /\ UNCHANGED <<running, cfgVars, worker, orphans, ctl, loaded, joinRem, skips, outVars, libVars>>

ResumeGuard == running /\ paused

Resume ==
  /\ ctl = "idle"
  /\ IF ResumeGuard
       THEN paused' = FALSE /\ event' = Returned("resume", "true")
       ELSE UNCHANGED paused /\ event' = Returned("resume", "false")
  /\ UNCHANGED <<running, cfgVars, worker, orphans, ctl, loaded, joinRem, skips, outVars, libVars>>

\* a stop() that leaves paused as it is
PausedAfterStopKept == paused

\* stop(): "self.paused = False"
PausedAfterStop == FALSE

\* stop() up to the join: return at once when not running, else clear the
\* flags and wait for the detection thread if it is alive
Stop ==
  /\ ctl = "idle"
  /\ IF ~running
       THEN /\ event' = Returned("stop", "none")
            /\ UNCHANGED <<flagVars, ctl, joinRem>>
       ELSE /\ running' = FALSE
            /\ paused' = PausedAfterStop
            /\ IF Alive(worker)
                 THEN /\ ctl' = "joining"
                      /\ joinRem' = JoinTimeout
                      /\ event' = NoEvent
                 ELSE /\ event' = Returned("stop", "none")
                      /\ UNCHANGED <<ctl, joinRem>>
  /\ UNCHANGED <<cfgVars, worker, orphans, loaded, skips, outVars, libVars>>

\* join(timeout=1.0) is over when the thread has ended or the time is up
\* a join() without timeout
JoinDoneNoTimeout == ~Alive(worker)

JoinDone == ~Alive(worker) \/ joinRem = 0

\* the rest of stop(): the join returns, "Detection stopped" is emitted
StopJoin ==
  /\ ctl = "joining"
  /\ JoinDone
  /\ ctl' = "idle"
  /\ joinRem' = 0
  /\ event' = Returned("stop", "none")
  /\ UNCHANGED <<flagVars, cfgVars, worker, orphans, loaded, skips, outVars, libVars>>

\* update_config() assigns the fields one after the other from what
\* load_config() returns, without a lock.  First "config = load_config();
\* self.scan_area = config.get('scan_area')"
UpdateConfig ==
  /\ ctl = "idle"
  /\ \E c \in Configs :
       /\ loaded' = c
       /\ scan_area' = c.scan_area
  /\ ctl' = "updating"
  /\ event' = NoEvent
  /\ UNCHANGED <<flagVars, confidence_threshold, cooldown, keybinds, icon_templates,
                 worker, orphans, joinRem, skips, outVars, libVars>>

\* then the assignments of detection_frequency, confidence_threshold,
\* cooldown, keybinds and icon_templates, and the return; no thread reads
\* one of these attributes (the only configuration read of a tick that is
\* reached is the one of scan_area), so the steps between them are not told
\* apart
UpdateConfigRest ==
  /\ ctl = "updating"
  /\ confidence_threshold' = loaded.confidence_threshold
  /\ cooldown' = loaded.cooldown
  /\ keybinds' = loaded.keybinds
  /\ icon_templates' = loaded.icon_templates
  /\ loaded' = NoConfig
  /\ ctl' = "idle"
  /\ event' = Returned("update_config", "none")
  /\ UNCHANGED <<flagVars, scan_area, worker, orphans, joinRem, skips, outVars, libVars>>

\* ----------------------------------------------------------- the threads
\* thread 0 is the detection thread, thread i > 0 is orphan i
ThreadIds == 0..Len(orphans)
Th(i) == IF i = 0 THEN worker ELSE orphans[i]

Remove(s, i) == [j \in 1..(Len(s) - 1) |-> IF j < i THEN s[j] ELSE s[j + 1]]

\* thread i moves on to th; an orphan that has ended is forgotten
SetTh(i, th) ==
  IF i = 0
    THEN worker' = th /\ UNCHANGED orphans
    ELSE /\ orphans' = IF Alive(th) THEN [orphans EXCEPT ![i] = th] ELSE Remove(orphans, i)
         /\ UNCHANGED worker

ThreadFrame == <<flagVars, cfgVars, ctl, loaded, joinRem>>

\* "while self.running:"
WhileCheck(i) ==
  /\ Th(i).pc = "while"
  /\ SetTh(i, IF running THEN [Th(i) EXCEPT !.pc = "ifpaused"]
                         ELSE [NoThread EXCEPT !.pc = "exited"])
  /\ event' = NoEvent
  /\ UNCHANGED <<ThreadFrame, skips, outVars, libVars>>

\* a loop without the test of paused
TickPausedNever(th) == FALSE

\* "if self.paused:" as the tick of thread th reads it
TickPaused(th) == paused

\* "if self.paused: time.sleep(0.1); continue"
PausedCheck(i) ==
  /\ Th(i).pc = "ifpaused"
  /\ SetTh(i, IF TickPaused(Th(i)) THEN [Th(i) EXCEPT !.pc = "sleep_paused"]
                        ELSE [Th(i) EXCEPT !.pc = "readarea"])
  /\ event' = NoEvent
  /\ UNCHANGED <<ThreadFrame, skips, outVars, libVars>>

\* the capture reads the attribute a second time
CapturedAreaLive(th) == scan_area

\* "capture_region(scan_area)": the region captured is the local the tick
\* has tested
CapturedArea(th) == th.area

\* the tick is skipped: a warning is logged, time.sleep(1), continue
\* a failed capture that is not checked for: the None screenshot is used
\* and the use raises
SkipTickRaises(th) == [NoThread EXCEPT !.pc = "crashed"]

SkipTick(th) == [NoThread EXCEPT !.pc = "sleep_backoff"]

Skipped(i) ==
  /\ SetTh(i, SkipTick(Th(i)))
  /\ event' = [NoEvent EXCEPT !.op = "skip", !.who = i,
                              !.area = IF Th(i).pc = "capture" THEN CapturedArea(Th(i)) ELSE NoArea]
  /\ skips' = IF i = 0 /\ skips < MaxSkips THEN skips + 1 ELSE skips

\* the tick takes the region of an earlier tick
TestedAreaStale(th) == th.area

\* "scan_area = self.scan_area": every tick reads the attribute anew
TestedArea(th) == scan_area

\* "scan_area = self.scan_area; if not scan_area: ..."
ReadArea(i) ==
  /\ Th(i).pc = "readarea"
  /\ IF TestedArea(Th(i)) = NoArea
       THEN Skipped(i)
       ELSE /\ SetTh(i, [Th(i) EXCEPT !.pc = "capture", !.area = TestedArea(Th(i))])
            /\ event' = [NoEvent EXCEPT !.op = "read", !.who = i]
            /\ UNCHANGED skips
  /\ UNCHANGED <<ThreadFrame, outVars, libVars>>

\* what capture_region(region) may return: a frame, or None when a step of
\* the capture raised, as the unpacking of a region that is None does
CaptureResults(region) == IF region = NoArea THEN {NoShot} ELSE FrameIds \cup {NoShot}

\* "screenshot = capture_region(scan_area); if screenshot is None: ..."
\* and, on success, screenshot_updated.emit(screenshot)
Capture(i) ==
  /\ Th(i).pc = "capture"
  /\ \E shot \in CaptureResults(CapturedArea(Th(i))) :
       IF shot = NoShot
         THEN Skipped(i)
         ELSE /\ SetTh(i, [Th(i) EXCEPT !.pc = "scan", !.shot = shot])
              /\ event' = [NoEvent EXCEPT !.op = "capture", !.who = i,
                                          !.area = CapturedArea(Th(i))]
              /\ skips' = IF i = 0 THEN 0 ELSE skips
  /\ UNCHANGED <<ThreadFrame, outVars, libVars>>

\* the tick presses the key of a bound spell
ScanPressesBound(th) == IF DOMAIN keybinds = {} THEN << >>
                        ELSE <<keybinds[CHOOSE n \in DOMAIN keybinds : TRUE]>>

\* the keys the matching part of a tick hands to press_key: none, line 224
\* is not reached
ScanPresses(th) == << >>

\* "for name, template in self.templates.items():" - the instance has no
\* attribute templates, the lookup raises AttributeError, nothing in
\* _detection_loop catches it and the thread ends; no statement of the for
\* body is reached
Scan(i) ==
  /\ Th(i).pc = "scan"
  /\ ~HasAttr("templates")
  /\ SetTh(i, [NoThread EXCEPT !.pc = "crashed"])
  /\ event' = [NoEvent EXCEPT !.op = "scan", !.ret = "AttributeError", !.who = i,
                              !.shot = Th(i).shot]
  /\ pressed' = pressed \o ScanPresses(Th(i))
  /\ UNCHANGED <<ThreadFrame, skips, detections, libVars>>

\* a sleep is over: "continue"
Wake(i) ==
  /\ Th(i).pc \in {"sleep_paused", "sleep_backoff"}
  /\ SetTh(i, [Th(i) EXCEPT !.pc = "while"])
  /\ event' = NoEvent
  /\ UNCHANGED <<ThreadFrame, skips, outVars, libVars>>

\* a second of the join timeout passes
Tick ==
  /\ joinRem > 0
  /\ joinRem' = joinRem - 1
  /\ event' = NoEvent
  /\ UNCHANGED <<flagVars, cfgVars, worker, orphans, ctl, loaded, skips, outVars, libVars>>

Next ==
  \/ Start
  \/ Pause
  \/ Resume
  \/ Stop
  \/ StopJoin
  \/ UpdateConfig
  \/ UpdateConfigRest
  \/ Tick
  \/ \E i \in ThreadIds : WhileCheck(i)
  \/ \E i \in ThreadIds : PausedCheck(i)
  \/ \E i \in ThreadIds : ReadArea(i)
  \/ \E i \in ThreadIds : Capture(i)
  \/ \E i \in ThreadIds : Scan(i)
  \/ \E i \in ThreadIds : Wake(i)

Spec == Init /\ [][Next]_vars

\* time passes and a join whose wait is over returns; nothing is assumed of
\* the threads, which may stay inside a capture for ever
FairSpec == Spec /\ WF_vars(Tick) /\ WF_vars(StopJoin)

TypeOK ==
  /\ running \in BOOLEAN /\ paused \in BOOLEAN
  /\ scan_area \in {NoArea, Area}
  /\ ctl \in {"idle", "joining", "updating"}
  /\ loaded \in Configs
  /\ joinRem \in 0..JoinTimeout
  /\ skips \in 0..MaxSkips
  /\ Len(orphans) <= MaxOrphans
  /\ \A i \in ThreadIds : Th(i).area \in {NoArea, Area} /\ Th(i).shot \in FrameIds \cup {NoShot}
  /\ \A j \in 1..Len(orphans) : Alive(orphans[j])

\* ------------------------------------------- IconMatcher.find_best_match
\* "if not templates", "if image is None" and the except clause:
\* return None, 0
FindNothing ==
  /\ \E order \in TemplateOrders, s \in Scorings, image \in BOOLEAN :
       order = << >> \/ ~image \/ LoopRaises(order, s)
  /\ found' = [NoFound EXCEPT !.op = "find"]
  /\ UNCHANGED <<recent_matches, raws, pushes, detVars, editVars, advVars, extVars>>

\* the call without a best match appends None to the window
FindNoMatchPushes ==
  /\ \E order \in TemplateOrders \ {<< >>}, s \in Scorings :
       /\ ~LoopRaises(order, s)
       /\ BestMatch(order, s).name = NoName
  /\ recent_matches' = Push(recent_matches, NoName)
  /\ found' = [NoFound EXCEPT !.op = "find"]
  /\ UNCHANGED <<raws, pushes, detVars, editVars, advVars, extVars>>

\* the loop ends with best_match_name None: "return best_match_name,
\* best_confidence"
FindNoMatch ==
  /\ \E order \in TemplateOrders \ {<< >>}, s \in Scorings :
       /\ ~LoopRaises(order, s)
       /\ BestMatch(order, s).name = NoName
  /\ found' = [NoFound EXCEPT !.op = "find"]
  /\ UNCHANGED <<recent_matches, raws, pushes, detVars, editVars, advVars, extVars>>

\* the loop ends with a best match: it is pushed and the stable name is
\* returned with the confidence of the best match
FindMatch ==
  \E order \in TemplateOrders \ {<< >>}, s \in Scorings :
    LET best == BestMatch(order, s) IN
      /\ ~LoopRaises(order, s)
      /\ best.name # NoName
      /\ recent_matches' = Push(recent_matches, best.name)
      /\ raws' = LastN(Append(raws, best.name), max_recent_matches)
      /\ pushes' = Min(pushes + 1, MaxPushes)
      /\ found' = [op |-> "find", raw |-> best.name,
                   name |-> StableName(recent_matches', best.name),
                   confidence |-> best.confidence,
                   own |-> s[StableName(recent_matches', best.name)]]
      /\ UNCHANGED <<detVars, editVars, advVars, extVars>>

MatcherInit == Constructed(NoConfig) /\ MatcherNew /\ EditorsNew /\ AdvNew /\ ExtNew

MatcherNext == FindNothing \/ FindNoMatch \/ FindMatch

MatcherSpec == MatcherInit /\ [][MatcherNext]_vars

MatcherTypeOK ==
  /\ recent_matches \in UNION {[1..n -> Names] : n \in 0..max_recent_matches}
  /\ raws \in UNION {[1..n -> Names] : n \in 0..max_recent_matches}
  /\ pushes \in 0..MaxPushes
  /\ found.name \in Names \cup {NoName}
  /\ found.raw \in Names \cup {NoName}

\* ------------------------------------------------- configuration editors
EditFrame == <<detVars, matcherVars, advVars, extVars>>

\* MainWindow.show_configuration_dialog: ConfigurationDialog.__init__ loads the
\* configuration; its icon_templates is the dict of the ConfigManager
OpenDialog ==
  /\ mode = "main"
  /\ mode' = "dialog"
  /\ binds' = FileKeybinds
  /\ done' = Did("open_dialog", "", "", "none")
  /\ UNCHANGED <<templates, cleared, EditFrame>>

\* the dialog is cancelled, or save_configuration saves it: the keybinds of
\* the dialog are written nowhere
CloseDialog ==
  /\ mode = "dialog"
  /\ mode' = "main"
  /\ binds' = FileKeybinds
  /\ done' = Did("close_dialog", "", "", "none")
  /\ UNCHANGED <<templates, cleared, EditFrame>>

\* add_spell: a name and a key are asked for; both entries are stored
AddSpell ==
  /\ mode = "dialog"
  /\ \E name \in TypedNames, key \in TypedKeys :
       /\ templates' = DictSet(templates, name, NewImage)
       /\ binds' = DictSet(binds, name, key)
       /\ done' = Did("add_spell", "", name, "ok")
  /\ UNCHANGED <<mode, cleared, EditFrame>>

\* on_spell_name_changed for the selected spell old_name and the text
\* new_name
OnSpellNameChanged ==
  /\ mode = "dialog"
  /\ \E old_name \in DOMAIN templates, new_name \in TypedNames :
       IF old_name = new_name
         THEN /\ done' = Did("rename", old_name, new_name, "same")
              /\ UNCHANGED <<templates, binds>>
         ELSE IF new_name \in DOMAIN templates
           THEN /\ done' = Did("rename", old_name, new_name, "exists")
                /\ UNCHANGED <<templates, binds>>
           ELSE /\ templates' = DictDel(DictSet(templates, new_name, templates[old_name]), old_name)
                /\ binds' = IF old_name \in DOMAIN binds
                              THEN DictDel(DictSet(binds, new_name, binds[old_name]), old_name)
                              ELSE binds
                /\ done' = Did("rename", old_name, new_name, "ok")
  /\ UNCHANGED <<mode, cleared, EditFrame>>

\* remove_spell for the selected spell, confirmed
RemoveSpell ==
  /\ mode = "dialog"
  /\ \E name \in DOMAIN templates :
       /\ templates' = DictDel(templates, name)
       /\ binds' = DictDel(binds, name)
       /\ done' = Did("remove_spell", name, "", "ok")
  /\ UNCHANGED <<mode, cleared, EditFrame>>

\* update_keybind: the text of the key field of a row of the keybind list
\* has changed
UpdateKeybind ==
  /\ mode = "dialog"
  /\ \E name \in DOMAIN binds, key \in TypedKeys :
       /\ binds' = DictSet(binds, name, key)
       /\ done' = Did("update_keybind", name, "", "ok")
  /\ UNCHANGED <<templates, mode, cleared, EditFrame>>

\* MainWindow.show_setup_wizard: IconTemplatePage.__init__ takes the dict
\* of the ConfigManager as its icon_templates
OpenWizard ==
  /\ mode = "main"
  /\ mode' = "wizard"
  /\ cleared' = FALSE
  /\ done' = Did("open_wizard", "", "", "none")
  /\ UNCHANGED <<templates, binds, EditFrame>>

\* the wizard is closed
CloseWizard ==
  /\ mode = "wizard"
  /\ mode' = "main"
  /\ cleared' = FALSE
  /\ done' = Did("close_wizard", "", "", "none")
  /\ UNCHANGED <<templates, binds, EditFrame>>

\* IconTemplatePage.capture_template: the capture is stored under the name
\* in the dict of the page, which save_config makes the dict of the
\* ConfigManager
CaptureTemplate ==
  /\ mode = "wizard"
  /\ \E name \in TypedNames :
       /\ templates' = IF cleared THEN [n \in {name} |-> NewImage]
                                   ELSE DictSet(templates, name, NewImage)
       /\ done' = Did("capture_template", "", name, "ok")
  /\ cleared' = FALSE
  /\ UNCHANGED <<binds, mode, EditFrame>>

\* IconTemplatePage.clear_templates, confirmed: the page gets a new dict;
\* 'icon_templates' is deleted from the loaded config, so that save_config
\* leaves the dict of the ConfigManager as it is
ClearTemplates ==
  /\ mode = "wizard"
  /\ cleared' = TRUE
  /\ done' = Did("clear_templates", "", "", "ok")
  /\ UNCHANGED <<templates, binds, mode, EditFrame>>

EditInit == Constructed(NoConfig) /\ MatcherNew /\ EditorsNew /\ AdvNew /\ ExtNew

EditNext ==
  \/ OpenDialog
  \/ CloseDialog
  \/ AddSpell
  \/ OnSpellNameChanged
  \/ RemoveSpell
  \/ UpdateKeybind
  \/ OpenWizard
  \/ CloseWizard
  \/ CaptureTemplate
  \/ ClearTemplates

EditSpec == EditInit /\ [][EditNext]_vars

\* the keybinds that go with the templates: those of the open dialog, else
\* those of the file
StoreKeybinds == IF mode = "dialog" THEN binds ELSE FileKeybinds

EditTypeOK ==
  /\ DOMAIN templates \subseteq SpellNames
  /\ DOMAIN binds \subseteq SpellNames
  /\ mode \in {"main", "dialog", "wizard"}
  /\ cleared \in BOOLEAN

\* --------------------------------------------------- AdvancedIconMatcher
AdvFrame == <<detVars, matcherVars, editVars, extVars>>

\* find_best_match: "if image is None or not templates: return None"
AdvFindNothing ==
  /\ adv_call.op = "find_best_match" /\ ~adv_call.image
  /\ adv_ret = Pending
  /\ adv_ret' = NoMatch
  /\ UNCHANGED <<adv_call, AdvFrame>>

\* find_best_match on an image and the templates, with the methods given
AdvFindBestMatch ==
  /\ adv_call.op = "find_best_match" /\ adv_call.image
  /\ adv_ret = Pending
  /\ adv_ret' = AdvBest(Pairs(PresetNames, adv_call.methods), adv_call.sc, adv_call.threshold)
  /\ UNCHANGED <<adv_call, AdvFrame>>

\* find_all_matches: the image or the template is None, or the template
\* is larger than the image
AdvFindAllNothing ==
  /\ adv_call.op = "find_all_matches" /\ ~adv_call.image
  /\ adv_ret = Pending
  /\ adv_ret' = [NoMatch EXCEPT !.kind = "list"]
  /\ UNCHANGED <<adv_call, AdvFrame>>

\* find_all_matches: the locations at or above the threshold, sorted and
\* suppressed
AdvFindAllMatches ==
  /\ adv_call.op = "find_all_matches" /\ adv_call.image
  /\ adv_ret = Pending
  /\ adv_ret' = [NoMatch EXCEPT !.kind = "list",
                                !.out = Nms(Sorted(adv_call.cands), 1, << >>, adv_call.w,
                                            adv_call.h, adv_call.max_results)]
  /\ UNCHANGED <<adv_call, AdvFrame>>

\* a call of one of the two functions, with its arguments
AdvInit ==
  /\ Constructed(NoConfig) /\ MatcherNew /\ EditorsNew /\ ExtNew
  /\ adv_call \in BestMatchCalls(MethodLists) \cup AllMatchesCalls(TemplateSizes)
  /\ adv_ret = Pending

AdvNext ==
  \/ AdvFindNothing
  \/ AdvFindBestMatch
  \/ AdvFindAllNothing
  \/ AdvFindAllMatches

AdvSpec == AdvInit /\ [][AdvNext]_vars

\* ---------------------------------------------------- KeyboardController
KbFrame == <<detVars, matcherVars, editVars, advVars, storeVars, skVars>>

PressKey ==
  /\ kb_call.op = "press_key"
  /\ ~kb_ret.returned
  /\ kb_ret' = PressKeyResult(kb_call.key, kb_call.hwnd, kb_call.direct_fail, kb_call.fail)
  /\ UNCHANGED <<kb_call, KbFrame>>

PressKeyCombination ==
  /\ kb_call.op = "press_key_combination"
  /\ ~kb_ret.returned
  /\ kb_ret' = PressKeyCombinationResult(kb_call.keys, kb_call.focus, kb_call.fail,
                                         kb_call.clean_fail)
  /\ UNCHANGED <<kb_call, KbFrame>>

KbInit ==
  /\ Constructed(NoConfig) /\ MatcherNew /\ EditorsNew /\ AdvNew /\ StoreNew /\ KeybinderNew
  /\ kb_call \in PressKeyCalls(Chords) \cup PressKeyCombinationCalls(Chords)
  /\ kb_ret = KbPending

KbNext ==
  \/ PressKey
  \/ PressKeyCombination

KbSpec == KbInit /\ [][KbNext]_vars

\* ---------------------------------------------------------- ConfigManager
StoreFrame == <<detVars, matcherVars, editVars, advVars, kbVars, skVars>>

\* save_config(config) with 'icon_templates' in config
SaveConfig ==
  /\ \E t \in TemplateDicts :
       /\ mgr_templates' = t
       /\ templates_file' = SaveTemplates(t, templates_file)
       /\ saved' = [any |-> TRUE, t |-> t]
       /\ store_ev' = [op |-> "save_config", t |-> t]
  /\ UNCHANGED StoreFrame

\* save_config(config) of a config without the key, as the setup wizard
\* leaves it after clear_templates: only config.json is written
SaveConfigNoTemplates ==
  /\ store_ev' = [op |-> "save_config", t |-> EmptyDict]
  /\ UNCHANGED <<templates_file, mgr_templates, saved, StoreFrame>>

\* load_config() of the ConfigManager in use
LoadConfig ==
  /\ store_ev' = [op |-> "load_config", t |-> mgr_templates]
  /\ UNCHANGED <<templates_file, mgr_templates, saved, StoreFrame>>

\* ConfigManager() on the same files, then its load_config()
Reopen ==
  /\ mgr_templates' = LoadTemplates(templates_file)
  /\ store_ev' = [op |-> "reopen", t |-> LoadTemplates(templates_file)]
  /\ UNCHANGED <<templates_file, saved, StoreFrame>>

\* reset_config(): the files are deleted
ResetConfig ==
  /\ templates_file' = NoFile
  /\ mgr_templates' = EmptyDict
  /\ saved' = NoSave
  /\ store_ev' = [op |-> "reset_config", t |-> EmptyDict]
  /\ UNCHANGED StoreFrame

\* the files as an earlier run has left them
StoreInit ==
  /\ Constructed(NoConfig) /\ MatcherNew /\ EditorsNew /\ AdvNew /\ KbNew /\ KeybinderNew
  /\ templates_file \in {NoFile} \cup {File(d) : d \in TemplateDicts \ {EmptyDict}}
  /\ mgr_templates = LoadTemplates(templates_file)
  /\ saved = NoSave
  /\ store_ev = NoStoreEv

StoreNext ==
  \/ SaveConfig
  \/ SaveConfigNoTemplates
  \/ LoadConfig
  \/ Reopen
  \/ ResetConfig

StoreSpec == StoreInit /\ [][StoreNext]_vars

\* --------------------------------------------------------- SpellKeybinder
KeybinderFrame == <<detVars, matcherVars, editVars, advVars, kbVars, storeVars>>

\* KeybinderUI.add_spell with a name, a key and a cursor position:
\* capture_spell_template appends to the three lists unless the grab
\* raises, then the item of the new index is inserted into the tree, which
\* raises when the tree has an item of that id
KeybinderAddSpell ==
  /\ Len(spell_templates) < MaxSpells /\ Len(spell_names) < MaxSpells
  /\ \E name \in TypedSpells, grabbed \in BOOLEAN :
       IF grabbed
         THEN /\ spell_templates' = Append(spell_templates, ImageOf(name, 1))
              /\ spell_keys' = Append(spell_keys, KeyOf(name))
              /\ spell_names' = Append(spell_names, name)
              /\ spell_tree' = spell_tree \cup {Len(spell_templates)}
              /\ sk_ev' = "add_spell"
         ELSE /\ sk_ev' = "add_spell_failed"
              /\ UNCHANGED <<spell_templates, spell_keys, spell_names, spell_tree>>
  /\ UNCHANGED KeybinderFrame

\* KeybinderUI.remove_spell of the selected item
KeybinderRemoveSpell ==
  /\ \E idx \in spell_tree :
       IF idx < Len(spell_templates)
         THEN /\ spell_templates' = Pop(spell_templates, idx)
              /\ spell_keys' = Pop(spell_keys, idx)
              /\ spell_names' = Pop(spell_names, idx)
              /\ spell_tree' = TreeOf(spell_keys', spell_names')
              /\ sk_ev' = "remove_spell"
         ELSE /\ sk_ev' = "remove_spell_ignored"
              /\ UNCHANGED <<spell_templates, spell_keys, spell_names, spell_tree>>
  /\ UNCHANGED KeybinderFrame

\* KeybinderUI.update_selected_spell: the template of the selected spell is
\* captured anew
UpdateSelectedSpell ==
  /\ \E idx \in spell_tree :
       IF idx < Len(spell_templates)
         THEN /\ spell_templates' =
                   [spell_templates EXCEPT ![idx + 1] = ImageOf(spell_names[idx + 1], 2)]
              /\ sk_ev' = "update_selected_spell"
         ELSE /\ sk_ev' = "update_selected_spell_ignored"
              /\ UNCHANGED spell_templates
  /\ UNCHANGED <<spell_keys, spell_names, spell_tree, KeybinderFrame>>

\* the templates import_keybinds appends for n keybinds: a copy of the
\* first template each time, "if len(spell_templates) > 0"
RECURSIVE ImportTemplates(_, _)
ImportTemplates(t, n) ==
  IF n = 0 THEN t
  ELSE ImportTemplates(IF Len(t) > 0 THEN Append(t, t[1]) ELSE t, n - 1)

\* KeybinderUI.import_keybinds, confirmed: the lists are cleared, then the
\* names and keys of the keybinds are appended
ImportKeybinds ==
  /\ spell_names' = [i \in DOMAIN ImportedKeybinds |-> ImportedKeybinds[i][1]]
  /\ spell_keys' = [i \in DOMAIN ImportedKeybinds |-> ImportedKeybinds[i][2]]
  /\ spell_templates' = ImportTemplates(<< >>, Len(ImportedKeybinds))
  /\ spell_tree' = TreeOf(spell_keys', spell_names')
  /\ sk_ev' = "import_keybinds"
  /\ UNCHANGED KeybinderFrame

KeybinderInit ==
  /\ Constructed(NoConfig) /\ MatcherNew /\ EditorsNew /\ AdvNew /\ KbNew /\ StoreNew
  /\ KeybinderNew

KeybinderNext ==
  \/ KeybinderAddSpell
  \/ KeybinderRemoveSpell
  \/ UpdateSelectedSpell
  \/ ImportKeybinds

KeybinderSpec == KeybinderInit /\ [][KeybinderNext]_vars

\* ================================================================ claims
Range(s) == {s[j] : j \in 1..Len(s)}

\* the templates of the configuration that qualify in the tick of event e:
\* confidence above the threshold and a key bound (no key press precedes
\* any tick, so no cooldown is running)
Qualifying(e) ==
  {n \in Range(icon_templates) \cap DOMAIN keybinds :
     Frames[e.shot][n] > confidence_threshold}
FirstQualifying(e) ==
  icon_templates[CHOOSE j \in 1..Len(icon_templates) :
     /\ icon_templates[j] \in Qualifying(e)
     /\ \A k \in 1..(j - 1) : icon_templates[k] \notin Qualifying(e)]
BestQualifying(e) ==
  CHOOSE n \in Qualifying(e) : \A m \in Qualifying(e) : Frames[e.shot][m] <= Frames[e.shot][n]
\* a thread is polling when it is inside the body of "while self.running"
Polling(th) == Alive(th) /\ th.pc # "while"
PollingCount ==
  (IF Polling(worker) THEN 1 ELSE 0) + Cardinality({j \in 1..Len(orphans) : Polling(orphans[j])})

\* C1: threshold gate - a tick that has scanned its frame has accepted a
\* match (dispatched a key) if and only if some template matched the frame
\* with a confidence strictly above the threshold.
C1_ThresholdGate ==
  event.op = "scan" =>
    ((event.keys # << >>) <=>
       (\E n \in Range(icon_templates) \cap DOMAIN keybinds :
          Frames[event.shot][n] > confidence_threshold))

\* C2: cooldown gate - a tick whose frame matches and that no dispatch
\* precedes (so that the time since the last dispatch is not below the
\* cooldown) dispatches the key, once: the first of the three ticks of the
\* scenario yields the one key press.
C2_CooldownGate ==
  (event.op = "scan" /\ Qualifying(event) # {} /\ Len(pressed) = Len(event.keys))
    => Len(event.keys) = 1

\* C3: a tick dispatches at most one key press, the one of the first
\* template in iteration order that qualifies, and none when none qualifies.
C3_FirstQualifyingWins ==
  event.op = "scan" =>
    event.keys = IF Qualifying(event) = {} THEN << >>
                 ELSE << keybinds[FirstQualifying(event)] >>

\* C4: the key a tick dispatches is the key of the highest-confidence
\* template among those above the threshold (N5 at 0.9 and C1 at 0.85 above
\* 0.8: the key of N5 and no other).
C4_HighestConfidenceWins ==
  (event.op = "scan" /\ Qualifying(event) # {})
    => event.keys = << keybinds[BestQualifying(event)] >>

\* C5: start() returns true, sets Running and spawns the worker exactly
\* when called from Stopped with a scan region and with keybinds; in every
\* other case, in particular with the region unset or no keybinds, it
\* returns false, leaves running and paused as they are and spawns nothing.
C5_StartGate ==
  [][event'.op = "start" =>
       IF ~running /\ scan_area # NoArea /\ DOMAIN keybinds # {}
         THEN /\ event'.ret = "true"
              /\ running' /\ ~paused'
              /\ worker' = NewThread
         ELSE /\ event'.ret = "false"
              /\ UNCHANGED <<running, paused, worker, orphans>>]_vars
C5_Witness ==
  /\ event.op = "start" /\ event.ret = "false"
  /\ RunState = "Stopped"
  /\ scan_area = NoArea \/ DOMAIN keybinds = {}
  /\ ~Alive(worker) /\ orphans = << >>

\* C6: pause() returns true and moves Running to Paused, resume() returns
\* true and moves Paused to Running; called in any other state each returns
\* false and leaves running and paused unchanged.
C6_PauseResume ==
  [][/\ event'.op = "pause" =>
          IF RunState = "Running"
            THEN event'.ret = "true" /\ running' /\ paused'
            ELSE event'.ret = "false" /\ UNCHANGED <<running, paused>>
     /\ event'.op = "resume" =>
          IF RunState = "Paused"
            THEN event'.ret = "true" /\ running' /\ ~paused'
            ELSE event'.ret = "false" /\ UNCHANGED <<running, paused>>]_vars
C6_Witness ==
  /\ event.op = "pause" /\ event.ret = "false"
  /\ RunState = "Stopped"
  /\ worker.pc = "exited"

\* C7: a stop() that has begun to wait for the worker returns, whatever the
\* worker does; when stop() returns running and paused are both false; a
\* stop() called in Stopped changes nothing.
C7_StopReturns ==
  /\ [][event'.op = "stop" => (~running' /\ ~paused' /\ ctl' = "idle")]_vars
  /\ [][(event'.op = "stop" /\ ctl = "idle" /\ ~running) =>
          UNCHANGED <<running, paused, cfgVars, worker, orphans, ctl, loaded, joinRem,
                      skips, outVars>>]_vars
  /\ (ctl = "joining") ~> (ctl = "idle")
C7_Witness ==
  /\ event.op = "stop"
  /\ RunState = "Stopped"
  /\ Alive(worker)

\* C8: at most one thread is executing the body of the detection loop.
C8_SingleWorker == PollingCount <= 1

\* C9: whenever running is true the detection thread is alive.
C9_WorkerSurvives == running => Alive(worker)

\* C10: a tick skipped because the region is undefined or the capture
\* failed dispatches no key press, emits no detection and leaves running
\* and paused unchanged; the thread is then in the backoff sleep, alive, and
\* the only way out of a sleep is back to the head of the loop.
C10_CaptureFailureNonFatal ==
  /\ [][event'.op = "skip" =>
          /\ UNCHANGED <<pressed, detections, running, paused>>
          /\ LET th == IF event'.who = 0 THEN worker' ELSE orphans'[event'.who]
             IN th.pc = "sleep_backoff"]_vars
  /\ [][(worker.pc = "sleep_backoff" /\ worker'.pc # "sleep_backoff")
          => worker'.pc = "while"]_vars
C10_Witness ==
  /\ skips = MaxSkips
  /\ scan_area = Area
  /\ RunState = "Running"
  /\ worker.pc = "capture"

C12_UpdateConfigFrame ==
  /\ [][((ctl = "updating" \/ ctl' = "updating") /\ ctl' # ctl) =>
          UNCHANGED <<running, paused, worker, orphans>>]_vars
  /\ [][event'.op = "update_config" =>
          /\ scan_area' = loaded.scan_area
          /\ confidence_threshold' = loaded.confidence_threshold
          /\ cooldown' = loaded.cooldown
          /\ keybinds' = loaded.keybinds
          /\ icon_templates' = loaded.icon_templates]_vars
  /\ [][event'.op = "read" =>
          /\ scan_area # NoArea
          /\ (IF event'.who = 0 THEN worker' ELSE orphans'[event'.who]).area = scan_area]_vars
  /\ [][(event'.op = "skip" /\ Th(event'.who).pc = "readarea") =>
          scan_area = NoArea]_vars
C12_Witness ==
  /\ RunState = "Running"
  /\ ctl = "idle"
  /\ event.op = "skip"
  /\ event.who = 0
  /\ event.area = NoArea
  /\ scan_area = NoArea

\* the latest stability_threshold names pushed are one and the same name
RawsSettled ==
  /\ Len(raws) >= stability_threshold
  /\ \A i \in (Len(raws) - stability_threshold + 1)..Len(raws) : raws[i] = raws[Len(raws)]

\* C13: stability - when the latest stability_threshold raw best-match
\* names are identical, find_best_match returns that name.
C13_StableOutput ==
  (found.op = "find" /\ found.raw # NoName /\ RawsSettled) => found.name = raws[Len(raws)]
C13_Witness ==
  /\ found.op = "find"
  /\ Len(raws) = max_recent_matches
  /\ raws[1] # raws[2]
  /\ RawsSettled
  /\ found.name = raws[Len(raws)]

\* C14 as claimed: when the latest stability_threshold raw names are not
\* all identical, the name returned is the most frequent of the window,
\* and among equally frequent names the most recently seen one.
C14_MostFrequentLatest ==
  (found.op = "find" /\ found.raw # NoName /\ Len(raws) >= stability_threshold /\ ~RawsSettled) =>
    /\ found.name \in Range(raws)
    /\ \A m \in Range(raws) :
         \/ Count(raws, found.name) > Count(raws, m)
         \/ Count(raws, found.name) = Count(raws, m) /\ LastAt(raws, found.name) >= LastAt(raws, m)

\* C14 as amended: when the latest stability_threshold raw names are not
\* all identical, the name returned is the most frequent of the window,
\* and among equally frequent names the one that entered the window first.
C14_MostFrequentEarliest ==
  (found.op = "find" /\ found.raw # NoName /\ Len(raws) >= stability_threshold /\ ~RawsSettled) =>
    /\ found.name \in Range(raws)
    /\ \A m \in Range(raws) :
         \/ Count(raws, found.name) > Count(raws, m)
         \/ Count(raws, found.name) = Count(raws, m) /\ FirstAt(raws, found.name) <= FirstAt(raws, m)
C14_Witness ==
  /\ found.op = "find"
  /\ Len(raws) = max_recent_matches
  /\ Cardinality(Range(raws)) = max_recent_matches
  /\ found.name = raws[1]
  /\ found.raw = raws[Len(raws)]

\* C15: rename atomicity - after a rename of oldName to newName that
\* succeeds, oldName is in neither mapping and newName has the image and
\* the key oldName had (no key when oldName had none).
C15_RenameMoves ==
  [][(done'.op = "rename" /\ done'.ret = "ok") =>
        /\ done'.old \notin DOMAIN templates' \cup DOMAIN binds'
        /\ done'.new \in DOMAIN templates'
        /\ templates'[done'.new] = templates[done'.old]
        /\ IF done'.old \in DOMAIN binds
             THEN done'.new \in DOMAIN binds' /\ binds'[done'.new] = binds[done'.old]
             ELSE done'.new \notin DOMAIN binds']_vars

\* C16: rename conflict - a rename to a name other than the old one that
\* is already in the store, with an image or with a key, is rejected and
\* leaves both mappings as they were.
C16_RenameConflictRejected ==
  [][(done'.op = "rename" /\ done'.new # done'.old /\
      done'.new \in DOMAIN templates \cup DOMAIN binds) =>
        /\ done'.ret = "exists"
        /\ UNCHANGED <<templates, binds>>]_vars

CallPairs == Pairs(PresetNames, adv_call.methods)
Exceeding ==
  {k \in DOMAIN CallPairs :
     adv_call.sc[CallPairs[k]] \notin {NoResult, MethodRaises} /\
     adv_call.sc[CallPairs[k]] > adv_call.threshold}
\* the first of the pairs with the highest confidence among those
FirstHighest ==
  CHOOSE k \in Exceeding :
    \A j \in Exceeding :
      \/ adv_call.sc[CallPairs[j]] < adv_call.sc[CallPairs[k]]
      \/ adv_call.sc[CallPairs[j]] = adv_call.sc[CallPairs[k]] /\ k <= j
IsBestMatchCall == adv_call.op = "find_best_match" /\ adv_call.image /\ adv_ret # Pending

C19_FailureIsolated ==
  (IsBestMatchCall /\ \E k \in DOMAIN CallPairs : adv_call.sc[CallPairs[k]] = MethodRaises) =>
    /\ adv_ret.kind # "raised"
    /\ adv_ret.kind = (IF Exceeding = {} THEN "none" ELSE "match")

\* C20: no two boxes of a find_all_matches result overlap by more than
\* half of the area of a box.
C20_NoOverlap ==
  (adv_call.op = "find_all_matches" /\ adv_ret # Pending) =>
    \A i, j \in DOMAIN adv_ret.out :
      i # j => 2 * OverlapArea(adv_ret.out[i], adv_ret.out[j], adv_call.w, adv_call.h)
                 <= adv_call.w * adv_call.h
C20_Witness ==
  /\ adv_call.op = "find_all_matches"
  /\ adv_ret.kind = "list"
  /\ Len(adv_ret.out) >= 2
  /\ Len(adv_ret.out) < adv_call.max_results
  /\ Len(adv_ret.out) < Cardinality(adv_call.cands)
  /\ \E i, j \in DOMAIN adv_ret.out :
       i # j /\ 2 * OverlapArea(adv_ret.out[i], adv_ret.out[j], adv_call.w, adv_call.h)
                  = adv_call.w * adv_call.h

\* the key events with the key names in lower case (key names are not case
\* sensitive)
Normal(events) == [i \in DOMAIN events |-> <<events[i][1], Lower(events[i][2])>>]
\* the keys that are down after the events
Held(events) ==
  {events[i][2] : i \in {j \in DOMAIN events :
      /\ events[j][1] = "down"
      /\ \A n \in (j + 1)..Len(events) : events[n] # KeyUp(events[j][2])}}
\* a returned call of a chord during which no input call raised
Dispatched ==
  /\ kb_ret.returned /\ Len(kb_call.chord) > 0
  /\ kb_call.direct_fail = 0
  /\ kb_call.fail = 0

\* C21: a chord dispatch in which nothing fails emits the modifiers down in
\* list order, the last key down and up, the modifiers up in reverse order,
\* and no other key event.
C21_ChordDispatch ==
  Dispatched =>
    /\ kb_ret.ok
    /\ Normal(kb_ret.events) =
         Normal(Downs(Front(kb_call.chord)) \o Tap(Last(kb_call.chord))
                  \o Ups(Reversed(Front(kb_call.chord))))

\* C22: when a dispatch call has returned, no key it pressed down is still
\* held, provided the key releases of the cleanup themselves succeed.
C22_NoKeyHeld ==
  (kb_ret.returned /\ kb_call.clean_fail = 0) => Held(kb_ret.events) = {}

\* C23: the stability window holds the latest min(n, max_recent_matches) of
\* the n names pushed, in push order, and never more than
\* max_recent_matches entries.
C23_WindowBounded ==
  /\ Len(recent_matches) <= max_recent_matches
  /\ Len(recent_matches) = Min(pushes, max_recent_matches)
  /\ recent_matches = raws
C23_Witness ==
  /\ pushes > max_recent_matches
  /\ Len(recent_matches) = max_recent_matches
  /\ found.raw = recent_matches[max_recent_matches]
  /\ recent_matches[1] # recent_matches[max_recent_matches]

\* C24: a call of find_best_match that has no raw match leaves the
\* stability window as it was.
C24_NoMatchFrame ==
  [][(found'.op = "find" /\ found'.raw = NoName) => recent_matches' = recent_matches]_vars
C24_Witness ==
  /\ found.op = "find" /\ found.raw = NoName
  /\ Len(recent_matches) > 0

\* C28: the confidence find_best_match returns is the one this call
\* computed for the name it returns.
C28_PairConsistent ==
  (found.op = "find" /\ found.name # NoName) => found.confidence = found.own

\* the threads that are at position pc of the loop, in the detection
\* thread w and the orphans o
At(w, o, pc) == Cardinality({i \in 0..Len(o) : (IF i = 0 THEN w ELSE o[i]).pc = pc})
\* the threads that are past the test of paused in their tick
Detecting(w, o) == At(w, o, "readarea") + At(w, o, "capture") + At(w, o, "scan")

\* C25: while paused no tick gets past the test of paused: a tick that
\* tests it goes to wait, no thread enters the part of the loop that
\* captures and presses keys, and no key press is dispatched.
C25_PausedWaits ==
  /\ [][paused => Detecting(worker', orphans') <= Detecting(worker, orphans)]_vars
  /\ [][(paused /\ At(worker, orphans, "ifpaused") > At(worker', orphans', "ifpaused"))
          => At(worker', orphans', "sleep_paused") > At(worker, orphans, "sleep_paused")]_vars
  /\ [][paused => pressed' = pressed]_vars
C25_Witness ==
  /\ is_paused
  /\ worker.pc = "sleep_paused"
  /\ Len(orphans) > 0 /\ orphans[1].pc = "sleep_paused"

C27_PausedImpliesRunning ==
  /\ paused => running
  /\ ~(is_running /\ is_paused)
  /\ RunState = "Stopped" => (~is_running /\ ~is_paused /\ ~paused)
C27_Witness ==
  /\ event = Returned("stop", "none")
  /\ RunState = "Stopped"
  /\ worker.pc = "sleep_paused"

\* C29: after save_config with icon_templates = T, a ConfigManager newly
\* constructed on the same files returns exactly T from load_config, the
\* empty T included.
C29_TemplatesRoundTrip ==
  (store_ev.op = "reopen" /\ saved.any) => store_ev.t = saved.t

\* C30: the lists spell_templates, spell_keys and spell_names have the same
\* length and their entries of one index belong to one spell.
C30_ListsParallel ==
  /\ Len(spell_templates) = Len(spell_names)
  /\ Len(spell_keys) = Len(spell_names)
  /\ \A i \in DOMAIN spell_names :
       /\ i \in DOMAIN spell_keys => spell_keys[i] = KeyOf(spell_names[i])
       /\ i \in DOMAIN spell_templates => spell_templates[i][2] = spell_names[i]

====
